---- MODULE Spec2Model ----
(***************************************************************************)
(* Build-event reporting of taro-webpack-runner (src/index.ts): the        *)
(* process-wide spinner, the isFirst latch, the compile-done / invalid     *)
(* hooks of watch mode, the run callback of one-shot mode, the dev         *)
(* server's listen callback and the minifier-aware error printer.          *)
(*                                                                         *)
(* errors / warnings are the sequences returned by formatWebpackMessage;   *)
(* a text is a sequence of tokens: "U" stands for the substring            *)
(* 'from UglifyJs', "[" "]" ":" "," for themselves and every other token   *)
(* for an ordinary character; a stack is a sequence of lines.  `out` is    *)
(* the terminal output written by the most recent callback, `ev` describes *)
(* that callback and its inputs, `thrown` tells whether it ended by an     *)
(* uncaught exception.                                                     *)
(***************************************************************************)
EXTENDS Integers, Sequences, FiniteSets, TLC

VARIABLES sessions, isFirst, spinner, made, out, ev, nDone, banners, thrown

vars == <<sessions, isFirst, spinner, made, out, ev, nDone, banners, thrown>>

\* ---------------------------------------------------------------- bounds
MaxSessions == 2
MaxLen == 2
MaxDone == 2

\* ------------------------------------------------------------- messages
NoLoc == [path |-> <<>>, line |-> <<>>, column |-> <<>>]

P1 == [id |-> "p1", text |-> <<"t">>]

P2 == [id |-> "p2", text |-> <<"t", "t">>]

\* "from UglifyJs ... [a:3,0][b]"
U0 == [id |-> "u0",
       text |-> <<"U", "t", "[", "a", ":", "3", ",", "0", "]", "[", "b", "]">>]

UN == [id |-> "un", text |-> <<"U", "t">>]

\* texts of compile errors / of compile warnings handed over by the classifier
ErrorMsgs == {P1, P2, U0}

WarningMsgs == {P1, P2}

\* sequences of pairwise distinct diagnostics of length <= n
SeqsUpTo(S, n) ==
  {q \in UNION {[1..k -> S] : k \in 0..n} :
     \A i, j \in 1..Len(q) : q[i] = q[j] => i = j}

ErrorSeqs == SeqsUpTo(ErrorMsgs, MaxLen)

WarningSeqs == SeqsUpTo(WarningMsgs, MaxLen)

\* classified results <<errors, warnings>> with at most MaxLen diagnostics
Results ==
  {r \in ErrorSeqs \X WarningSeqs : Len(r[1]) + Len(r[2]) <= MaxLen}

NoErr == [isNull |-> TRUE, message |-> <<>>, stack |-> <<>>]

\* stack of a freshly built Error: "Error: " + message, one line per entry
\* of the joined message, then the call frames
StackOf(message) ==
  [i \in 1..Len(message) |->
     IF i = 1 THEN <<"t">> \o message[i].text ELSE message[i].text]
  \o <<(<<"t">>)>>

\* new Error(message)
Error(message) ==
  [isNull |-> FALSE, message |-> message, stack |-> StackOf(message)]

\* errors the engine hands to the run callback; the last two carry no stack
EngineErrs ==
  {Error(<<P1>>), Error(<<U0>>), Error(<<UN>>),
   [isNull |-> FALSE, message |-> <<>>, stack |-> <<>>],
   [isNull |-> FALSE, message |-> <<UN>>, stack |-> <<>>]}

\* ------------------------------------------------------- terminal items
Item(k, body, loc) == [k |-> k, body |-> body, loc |-> loc]

Line(k) == Item(k, <<>>, <<>>)

log(st, item) == [st EXCEPT !.out = Append(@, item)]

\* ------------------------------------------------------------- spinner
\* `started` tells an instance that was never started (Idle) from a stopped one
NoSpinner ==
  [exists |-> FALSE, text |-> "", isSpinning |-> FALSE, started |-> FALSE]

ora(text) ==
  [exists |-> TRUE, text |-> text, isSpinning |-> FALSE, started |-> FALSE]

\* getServeSpinner without the `if (!spinner)` test
getServeSpinner_always(st) ==
  [st EXCEPT !.spinner = ora("Starting development server, please wait~"),
             !.made = @ + 1]

getServeSpinner(st) ==
  IF ~st.spinner.exists
  THEN [st EXCEPT !.spinner = ora("Starting development server, please wait~"),
                  !.made = @ + 1]
  ELSE st

setText(st, text) == [st EXCEPT !.spinner.text = text]

\* ora start(): no-op when already spinning, else draws and arms the timer
start(st) ==
  [st EXCEPT !.spinner.isSpinning = TRUE, !.spinner.started = TRUE]

\* ora render(): clears and draws one frame; the timer is not armed
render(st) == st

\* ora clear(): erases the current frame only
clear(st) == st

\* ora stopAndPersist(): stop(), then write "symbol text"
stopAndPersist(st, colour) ==
  log([st EXCEPT !.spinner.isSpinning = FALSE], Line(colour))

\* ------------------------------------------------------ printBuildError
\* message.indexOf('from UglifyJs') !== -1
ContainsUglify(message) ==
  \E i \in 1..Len(message) :
    \E j \in 1..Len(message[i].text) : message[i].text[j] = "U"

Pos(line, c) == {i \in 1..Len(line) : line[i] = c}

\* ways /(.+)\[(.+):(.+),(.+)\]\[.+\]/ matches a line from its first
\* character: positions <<b, c, m, r>> of the "[", ":", "," and "]" that
\* delimit the four non-empty groups, with "[", a character and "]" after r
Decomps(line) ==
  {d \in Pos(line, "[") \X Pos(line, ":") \X Pos(line, ",") \X Pos(line, "]") :
     /\ d[1] >= 2 /\ d[2] >= d[1] + 2 /\ d[3] >= d[2] + 2 /\ d[4] >= d[3] + 2
     /\ d[4] + 1 \in Pos(line, "[")
     /\ \E e \in Pos(line, "]") : e >= d[4] + 3}

LexGE(d, e) ==
  \/ d[1] > e[1]
  \/ d[1] = e[1] /\ d[2] > e[2]
  \/ d[1] = e[1] /\ d[2] = e[2] /\ d[3] > e[3]
  \/ d[1] = e[1] /\ d[2] = e[2] /\ d[3] = e[3] /\ d[4] >= e[4]

\* the match the backtracking engine finds: every (.+) is greedy, so the
\* groups are as long as possible, the leftmost group first
Greedy(line) ==
  CHOOSE d \in Decomps(line) : \A e \in Decomps(line) : LexGE(d, e)

\* lines of the stack the pattern matches ("." does not cross a newline)
Matches(stack) == {i \in 1..Len(stack) : Decomps(stack[i]) # {}}

FirstMatch(stack) ==
  CHOOSE i \in Matches(stack) : \A j \in Matches(stack) : i <= j

\* regex.exec(stack): groups 2, 3, 4 of the leftmost match, NoLoc for null
exec(stack) ==
  IF Matches(stack) = {} THEN NoLoc
  ELSE LET line == stack[FirstMatch(stack)]
           d == Greedy(line)
       IN [path |-> SubSeq(line, d[1] + 1, d[2] - 1),
           line |-> SubSeq(line, d[2] + 1, d[3] - 1),
           column |-> SubSeq(line, d[3] + 1, d[4] - 1)]

LocText(loc) ==
  IF loc.column # <<"0">> THEN <<loc.path, loc.line, loc.column>>
                          ELSE <<loc.path, loc.line>>

\* printBuildError without the try / catch around the pattern match
printBuildError_noCatch(st, err) ==
  LET message == IF err.isNull THEN <<>> ELSE err.message
      stack == IF err.isNull THEN <<>> ELSE err.stack
      s1 == IF stack # <<>> /\ ContainsUglify(message)
            THEN IF exec(stack) = NoLoc
                 THEN [st EXCEPT !.thrown = TRUE]
                 ELSE log(st, Item("minifyFile", <<>>, LocText(exec(stack))))
            ELSE IF message # <<>>
                 THEN log(st, Item("log", message, <<>>))
                 ELSE log(st, Line("logErr"))
  IN IF s1.thrown THEN s1 ELSE log(s1, Line("blank"))

printBuildError(st, err) ==
  LET message == IF err.isNull THEN <<>> ELSE err.message
      stack == IF err.isNull THEN <<>> ELSE err.stack
      matched == exec(stack)
      tried == IF matched = NoLoc
               THEN [st EXCEPT !.thrown = TRUE]
               ELSE log(st, Item("minifyFile", <<>>, LocText(matched)))
      caught == IF tried.thrown
                THEN log([tried EXCEPT !.thrown = FALSE],
                         Item("minifyBundle", message, <<>>))
                ELSE tried
      s1 == IF stack # <<>> /\ ContainsUglify(message)
            THEN caught
            ELSE IF message # <<>>
                 THEN log(st, Item("log", message, <<>>))
                 ELSE log(st, Line("logErr"))
  IN IF s1.thrown THEN s1 ELSE log(s1, Line("blank"))

\* ------------------------------------------------------- createCompiler
\* Array.prototype.splice(1): removes everything from index 1 on
splice1(s) == IF Len(s) > 1 THEN SubSeq(s, 1, 1) ELSE s

taroInvalid(st) ==
  render(getServeSpinner(setText(getServeSpinner(st), "Compiling...")))

\* taroDone without errors.splice(1)
taroDone_noSplice(st, errors, warnings) ==
  LET isSuccess == Len(errors) = 0 /\ Len(warnings) = 0
      s1 == IF isSuccess THEN stopAndPersist(getServeSpinner(st), "green") ELSE st
      s2 == IF Len(errors) # 0
            THEN log(stopAndPersist(getServeSpinner(s1), "red"),
                     Item("log", errors, <<>>))
            ELSE s1
      s3 == IF Len(warnings) # 0
            THEN log(stopAndPersist(getServeSpinner(s2), "yellow"),
                     Item("log", splice1(warnings), <<>>))
            ELSE s2
  IN s3

\* taroDone whose failure block lost its `if (errors.length)` guard
taroDone_noErrorGuard(st, errors, warnings) ==
  LET isSuccess == Len(errors) = 0 /\ Len(warnings) = 0
      s1 == IF isSuccess THEN stopAndPersist(getServeSpinner(st), "green") ELSE st
      s2 == log(stopAndPersist(getServeSpinner(s1), "red"),
                Item("log", splice1(errors), <<>>))
      s3 == IF Len(warnings) # 0
            THEN log(stopAndPersist(getServeSpinner(s2), "yellow"),
                     Item("log", splice1(warnings), <<>>))
            ELSE s2
  IN s3

\* taroDone that also writes the stats summary on success, as buildProd does
taroDone_withStats(st, errors, warnings) ==
  LET isSuccess == Len(errors) = 0 /\ Len(warnings) = 0
      s1 == IF isSuccess
            THEN log(stopAndPersist(getServeSpinner(st), "green"), Line("stats"))
            ELSE st
      s2 == IF Len(errors) # 0
            THEN log(stopAndPersist(getServeSpinner(s1), "red"),
                     Item("log", splice1(errors), <<>>))
            ELSE s1
      s3 == IF Len(warnings) # 0
            THEN log(stopAndPersist(getServeSpinner(s2), "yellow"),
                     Item("log", splice1(warnings), <<>>))
            ELSE s2
  IN s3

taroDone(st, errors, warnings) ==
  LET isSuccess == Len(errors) = 0 /\ Len(warnings) = 0
      s1 == IF isSuccess THEN stopAndPersist(getServeSpinner(st), "green") ELSE st
      s2 == IF Len(errors) # 0
            THEN log(stopAndPersist(getServeSpinner(s1), "red"),
                     Item("log", splice1(errors), <<>>))
            ELSE s1
      s3 == IF Len(warnings) # 0
            THEN log(stopAndPersist(getServeSpinner(s2), "yellow"),
                     Item("log", splice1(warnings), <<>>))
            ELSE s2
  IN s3

\* ------------------------------------------------------------ buildProd
Guidance(st, warnings) ==
  log(log(log(stopAndPersist(getServeSpinner(st), "yellow"),
              Item("log", warnings, <<>>)),
          Line("guideKeywords")),
      Line("guideIgnore"))

\* run callback whose failure block does not return
runCallback_noErrorReturn(st, err, errors, warnings) ==
  LET isSuccess == Len(errors) = 0 /\ Len(warnings) = 0
      s1 == IF Len(errors) # 0
            THEN printBuildError(stopAndPersist(getServeSpinner(st), "red"),
                                 Error(splice1(errors)))
            ELSE st
  IN IF ~err.isNull THEN printBuildError(st, err)
     ELSE IF isSuccess
     THEN log(stopAndPersist(getServeSpinner(st), "green"), Line("stats"))
     ELSE IF Len(warnings) # 0 THEN Guidance(s1, warnings) ELSE s1

\* run callback without the `if (err)` early return
runCallback_ignoreErr(st, err, errors, warnings) ==
  LET isSuccess == Len(errors) = 0 /\ Len(warnings) = 0
  IN IF isSuccess
     THEN log(stopAndPersist(getServeSpinner(st), "green"), Line("stats"))
     ELSE IF Len(errors) # 0
     THEN printBuildError(stopAndPersist(getServeSpinner(st), "red"),
                          Error(splice1(errors)))
     ELSE IF Len(warnings) # 0 THEN Guidance(st, warnings)
     ELSE st

runCallback(st, err, errors, warnings) ==
  LET isSuccess == Len(errors) = 0 /\ Len(warnings) = 0
  IN IF ~err.isNull THEN printBuildError(st, err)
     ELSE IF isSuccess
     THEN log(stopAndPersist(getServeSpinner(st), "green"), Line("stats"))
     ELSE IF Len(errors) # 0
     THEN printBuildError(stopAndPersist(getServeSpinner(st), "red"),
                          Error(splice1(errors)))
     ELSE IF Len(warnings) # 0
     THEN Guidance(st, warnings)
     ELSE st

\* buildProd that sets the label but never calls start()
buildProd_noStart(st) ==
  getServeSpinner(setText(getServeSpinner(st), "Compiling..."))

buildProd(st) ==
  start(getServeSpinner(setText(getServeSpinner(st), "Compiling...")))

\* ------------------------------------------------------------- buildDev
\* taroDoneFirst that never clears the latch
taroDoneFirst_noLatch(st) ==
  IF st.isFirst
  THEN log(log(log(log(clear(getServeSpinner(st)),
                       Line("blank")),
                   Line("listenLan")),
               Line("listenLocal")),
           Line("watching"))
  ELSE st

taroDoneFirst(st) ==
  IF st.isFirst
  THEN log(log(log(log(clear(getServeSpinner([st EXCEPT !.isFirst = FALSE])),
                       Line("blank")),
                   Line("listenLan")),
               Line("listenLocal")),
           Line("watching"))
  ELSE st

buildDev(st) ==
  start(getServeSpinner(setText(getServeSpinner(log(st, Line("blank"))),
                                "Compiling...")))

\* opn(urls.localUrlForBrowser)
opn(st) == [st EXCEPT !.opn = @ + 1]

\* listen callback whose error branch does not return
listenCallback_noReturn(st, err) ==
  IF err THEN opn(log(st, Line("listenErr"))) ELSE opn(st)

listenCallback(st, err) ==
  IF err THEN log(st, Line("listenErr")) ELSE opn(st)

\* ---------------------------------------------------------------- state
St ==
  [spinner |-> spinner, made |-> made, out |-> <<>>, isFirst |-> isFirst,
   thrown |-> FALSE, opn |-> 0]

Ev(kind, s, err, errors, warnings) ==
  [kind |-> kind, s |-> s, err |-> err, errors |-> errors,
   warnings |-> warnings, spinning |-> spinner.isSpinning,
   first |-> isFirst]

Count(seq, k) == Cardinality({i \in 1..Len(seq) : seq[i].k = k})

Commit(st) ==
  /\ spinner' = st.spinner
  /\ made' = st.made
  /\ out' = st.out
  /\ isFirst' = st.isFirst
  /\ thrown' = st.thrown
  /\ banners' = banners + Count(st.out, "listenLan")

Init ==
  /\ sessions = <<>>
  /\ isFirst = TRUE
  /\ spinner = NoSpinner
  /\ made = 0
  /\ out = <<>>
  /\ ev = Ev("none", 0, NoErr, <<>>, <<>>)
  /\ nDone = 0
  /\ banners = 0
  /\ thrown = FALSE

\* what buildDev sets up: createCompiler's taps and taroDoneFirst, the dev
\* server (whose construction starts the first compile) and a pending listen
devSession(isWatch) ==
  [isWatch |-> isWatch, mode |-> "watch",
   hooks |-> {"taroInvalid", "taroDone", "taroDoneFirst"},
   compiling |-> TRUE, listen |-> "pending", runs |-> 0, opened |-> 0]

\* what buildProd sets up: a bare compiler and one compiler.run call
prodSession(isWatch) ==
  [isWatch |-> isWatch, mode |-> "prod", hooks |-> {},
   compiling |-> TRUE, listen |-> "none", runs |-> 1, opened |-> 0]

\* default export with the two branches exchanged
Entry_swapped(isWatch) ==
  /\ Len(sessions) < MaxSessions
  /\ ev' = Ev("entry", Len(sessions) + 1, NoErr, <<>>, <<>>)
  /\ IF ~isWatch
     THEN /\ Commit(buildDev(St))
          /\ sessions' = Append(sessions, devSession(isWatch))
     ELSE /\ Commit(buildProd(St))
          /\ sessions' = Append(sessions, prodSession(isWatch))
  /\ UNCHANGED nDone

\* default export: config.isWatch selects buildDev or buildProd
Entry(isWatch) ==
  /\ Len(sessions) < MaxSessions
  /\ ev' = Ev("entry", Len(sessions) + 1, NoErr, <<>>, <<>>)
  /\ IF isWatch
     THEN /\ Commit(buildDev(St))
          /\ sessions' = Append(sessions, devSession(isWatch))
     ELSE /\ Commit(buildProd(St))
          /\ sessions' = Append(sessions, prodSession(isWatch))
  /\ UNCHANGED nDone

\* compiler.hooks.invalid of a watch session
Invalid(s) ==
  /\ sessions[s].mode = "watch"
  /\ "taroInvalid" \in sessions[s].hooks
  /\ ev' = Ev("invalid", s, NoErr, <<>>, <<>>)
  /\ Commit(taroInvalid(St))
  /\ sessions' = [sessions EXCEPT ![s].compiling = TRUE]
  /\ UNCHANGED nDone

\* done hook whose taps run in the opposite order
Done_firstTapFirst(s, errors, warnings) ==
  /\ sessions[s].mode = "watch"
  /\ sessions[s].compiling
  /\ nDone < MaxDone
  /\ ev' = Ev("done", s, NoErr, errors, warnings)
  /\ Commit(taroDone(taroDoneFirst(St), errors, warnings))
  /\ sessions' = [sessions EXCEPT ![s].compiling = FALSE]
  /\ nDone' = nDone + 1

\* compiler.hooks.done of a watch session: taps run in registration order
Done(s, errors, warnings) ==
  /\ sessions[s].mode = "watch"
  /\ sessions[s].compiling
  /\ nDone < MaxDone
  /\ ev' = Ev("done", s, NoErr, errors, warnings)
  /\ Commit(taroDoneFirst(taroDone(St, errors, warnings)))
  /\ sessions' = [sessions EXCEPT ![s].compiling = FALSE]
  /\ nDone' = nDone + 1

\* callback of compiler.run of a one-shot session
Run(s, err, errors, warnings) ==
  /\ sessions[s].mode = "prod"
  /\ sessions[s].compiling
  /\ ev' = Ev("run", s, err, errors, warnings)
  /\ Commit(runCallback(St, err, errors, warnings))
  /\ sessions' = [sessions EXCEPT ![s].compiling = FALSE]
  /\ UNCHANGED nDone

\* callback of server.listen of a watch session
Listen(s, err) ==
  /\ sessions[s].mode = "watch"
  /\ sessions[s].listen = "pending"
  /\ ev' = Ev("listen", s, NoErr, <<>>, <<>>)
  /\ Commit(listenCallback(St, err))
  /\ sessions' = [sessions EXCEPT
                    ![s].listen = IF err THEN "err" ELSE "ok",
                    ![s].opened = @ + listenCallback(St, err).opn]
  /\ UNCHANGED nDone

Next ==
  \/ \E isWatch \in BOOLEAN : Entry(isWatch)
  \/ \E s \in 1..Len(sessions) : Invalid(s)
  \/ \E s \in 1..Len(sessions), r \in Results : Done(s, r[1], r[2])
  \/ \E s \in 1..Len(sessions), err \in EngineErrs : Run(s, err, <<>>, <<>>)
  \/ \E s \in 1..Len(sessions), r \in Results : Run(s, NoErr, r[1], r[2])
  \/ \E s \in 1..Len(sessions), err \in BOOLEAN : Listen(s, err)

Spec == Init /\ [][Next]_vars

\* ------------------------------------- printBuildError as a function
\* a stack line "<text>[<path>:<line>,<column>][<anything>]"
Shape(text, path, line, column, anything) ==
  text \o <<"[">> \o path \o <<":">> \o line \o <<",">> \o column
       \o <<"]", "[">> \o anything \o <<"]">>

ShapeTexts == {<<"t">>, <<"t", "[", "t", "]">>}

ShapePaths == {<<"a">>, <<"a", ":", "b">>, <<"a", "[", "b">>}

ShapeLines == {<<"3">>}

ShapeColumns == {<<"0">>, <<"7">>, <<"0", "7">>}

ShapeAnythings == {<<"b">>, <<"b", "]", "[", "b">>}

\* stacks: none, one the pattern does not match, and the shaped ones
PrintStacks ==
  {<<>>, <<(<<"t">>)>>, <<(<<"[", "a", ":", "3", ",", "0", "]", "[", "b", "]">>)>>}
  \cup {<<Shape(t, p, l, c, a), <<"t">>>> :
          t \in ShapeTexts, p \in ShapePaths, l \in ShapeLines,
          c \in ShapeColumns, a \in ShapeAnythings}

PrintMessages == {<<>>, <<P1>>, <<UN>>, <<P1, UN>>}

\* arguments of printBuildError: null, or an Error with any message and stack
PrintErrs ==
  {NoErr} \cup
  {[isNull |-> FALSE, message |-> m, stack |-> k] :
     m \in PrintMessages, k \in PrintStacks}

PrintInit ==
  /\ sessions = <<>>
  /\ isFirst = TRUE
  /\ spinner = NoSpinner
  /\ made = 0
  /\ out = <<>>
  /\ \E err \in PrintErrs : ev = Ev("input", 0, err, <<>>, <<>>)
  /\ nDone = 0
  /\ banners = 0
  /\ thrown = FALSE

PrintCall ==
  /\ ev.kind = "input"
  /\ ev' = [ev EXCEPT !.kind = "print"]
  /\ Commit(printBuildError(St, ev.err))
  /\ UNCHANGED <<sessions, nDone>>

PrintNext == PrintCall

PrintSpec == PrintInit /\ [][PrintNext]_vars

\* ------------------------------------------------------------ properties
Kinds(ks) == {i \in 1..Len(out) : out[i].k \in ks}

Persisted == Kinds({"green", "red", "yellow"})

Texts == Kinds({"log", "logErr", "minifyFile", "minifyBundle"})

Banner == Kinds({"listenLan", "listenLocal", "watching"})

\* the last callback was handed a compile result (watch done hook or run callback)
IsResult == ev.kind \in {"done", "run"} /\ ev.err.isNull

IsSuccess == IsResult /\ ev.errors = <<>> /\ ev.warnings = <<>>

IsFailure == IsResult /\ ev.errors # <<>>

IsWarningsOnly == IsResult /\ ev.errors = <<>> /\ ev.warnings # <<>>

\* item `it` shows message m and nothing else
ShowsOnly(it, m) ==
  \/ it.k \in {"log", "minifyBundle"} /\ it.body = <<m>>
  \/ it.k = "minifyFile" /\ m = U0 /\ it.loc = <<(<<"a">>), <<"3">>>>

\* C1: every compile-complete event, in watch mode and in one-shot mode,
\* renders exactly one outcome block (one stopAndPersist); with errors and
\* warnings together only the red block is rendered, no yellow line and no
\* warning text.
C1_ExactlyOneOutcome ==
  IsResult =>
    /\ Cardinality(Persisted) = 1
    /\ (ev.errors # <<>> /\ ev.warnings # <<>>) =>
         /\ out[1].k = "red"
         /\ Kinds({"yellow"}) = {}
         /\ Cardinality(Texts) = 1

\* C2: with n >= 1 errors, in both modes, the text printed after the red
\* line holds exactly one error entry, the first element of the error
\* sequence; elements 2..n are not printed.
C2_FirstErrorOnly ==
  IsFailure =>
    /\ Cardinality(Kinds({"red"})) = 1
    /\ \A i \in Kinds({"red"}) :
         /\ i < Len(out)
         /\ ShowsOnly(out[i + 1], ev.errors[1])
         /\ \A j \in Texts : j > i + 1 => \E y \in Kinds({"yellow"}) : i < y /\ y < j

C2_Witness ==
  /\ ev.kind = "run" /\ IsFailure /\ Len(ev.errors) = 2
  /\ out[1].k = "red" /\ out[2] = Item("log", <<ev.errors[1]>>, <<>>)

\* C3: with 0 errors and n >= 1 warnings, in both modes, the yellow line is
\* persisted once and exactly one warning entry, the first element of the
\* warning sequence, is printed.
C3_FirstWarningOnly ==
  IsWarningsOnly =>
    /\ Cardinality(Persisted) = 1
    /\ out[1].k = "yellow"
    /\ Cardinality(Texts) = 1
    /\ out[2] = Item("log", <<ev.warnings[1]>>, <<>>)

\* C4: with no errors and no warnings, in both modes, exactly one green
\* line is persisted and no red line, yellow line or diagnostic text is
\* written for the pass.
C4_SuccessOnlyGreen ==
  IsSuccess =>
    /\ Cardinality(Kinds({"green"})) = 1
    /\ out[1].k = "green"
    /\ Kinds({"red", "yellow"}) = {}
    /\ Texts = {}

C4_Witness ==
  /\ ev.kind = "done" /\ IsSuccess /\ ~ev.first
  /\ out = <<Line("green")>>

\* C5: over the compile-complete events of watch mode the banner is printed
\* exactly once, on the first event whatever its outcome; isFirst turns
\* false on that event and stays false, also for a later watch session.
C5_BannerOnce ==
  /\ banners = (IF nDone = 0 THEN 0 ELSE 1)
  /\ isFirst = (nDone = 0)
  /\ ev.kind = "done" =>
       /\ (nDone = 1) = (ev.first /\ Banner # {})
       /\ (nDone > 1) = (~ev.first /\ Banner = {})
       /\ Banner # {} =>
            /\ Cardinality(Banner) = 3
            /\ \A k \in {"listenLan", "listenLocal", "watching"} :
                 Cardinality(Kinds({k})) = 1

C5_Witness ==
  /\ nDone = 2 /\ banners = 1 /\ ~isFirst
  /\ ev.kind = "done" /\ ev.s = 2 /\ sessions[2].mode = "watch"
  /\ Banner = {}

\* C6: the banner is printed only on a compile-complete event that comes
\* after the dev server's listen callback has fired without error.
C6_BannerAfterListen ==
  (ev.kind = "done" /\ Banner # {}) => sessions[ev.s].listen = "ok"

\* C7: after a pass was reported, the next 'invalid' notification makes the
\* reporter Spinning again with label 'Compiling...', so every
\* compile-complete event is handled while the reporter is Spinning.
C7_InvalidRespins ==
  /\ ev.kind = "invalid" =>
       spinner.isSpinning /\ spinner.text = "Compiling..."
  /\ ev.kind = "done" => ev.spinning

\* C8: the stats summary is printed iff the pass is a one-shot Success, and
\* then right after the green line.
C8_StatsOnlyOneShotSuccess ==
  /\ (Kinds({"stats"}) # {}) = (ev.kind = "run" /\ IsSuccess)
  /\ Kinds({"stats"}) # {} => out = <<Line("green"), Line("stats")>>

C8_Witness ==
  ev.kind = "run" /\ IsSuccess /\ out = <<Line("green"), Line("stats")>>

\* C9: the two guidance lines are printed iff the pass is a one-shot
\* WarningsOnly, and then after the warning text.
C9_GuidanceOnlyOneShotWarnings ==
  /\ (Kinds({"guideKeywords", "guideIgnore"}) # {})
       = (ev.kind = "run" /\ IsWarningsOnly)
  /\ Kinds({"guideKeywords", "guideIgnore"}) # {} =>
       /\ Len(out) = 4
       /\ out[1].k = "yellow" /\ out[2].k = "log" /\ out[2].body # <<>>
       /\ out[3] = Line("guideKeywords") /\ out[4] = Line("guideIgnore")

C9_Witness ==
  /\ ev.kind = "run" /\ IsWarningsOnly
  /\ out[3] = Line("guideKeywords") /\ out[4] = Line("guideIgnore")

\* C10: a run callback that receives an engine error calls printBuildError
\* once and does nothing else: nothing is persisted, no stats summary, the
\* reporter is left as it was and compiler.run is not called again.
C10_EngineErrorOnlyPrinted ==
  (ev.kind = "run" /\ ~ev.err.isNull) =>
    /\ Len(out) = 2
    /\ Texts = {1}
    /\ out[2] = Line("blank")
    /\ Persisted = {} /\ Kinds({"stats"}) = {}
    /\ spinner.isSpinning = ev.spinning
    /\ sessions[ev.s].runs = 1 /\ ~sessions[ev.s].compiling
    /\ ~thrown

C10_Witness ==
  /\ ev.kind = "run" /\ ev.err = Error(<<U0>>)
  /\ out = <<Item("minifyFile", <<>>, <<(<<"a">>), <<"3">>>>), Line("blank")>>
  /\ spinner.isSpinning

\* C11: printBuildError raises for no input; with 'from UglifyJs' in the
\* message and a stack the pattern does not match it prints the 'Failed to
\* minify the bundle.' fallback with the error; every branch prints one
\* message block, then one blank line, and returns.
C11_PrintNeverRaises ==
  ev.kind = "print" =>
    /\ ~thrown
    /\ Len(out) = 2
    /\ out[1].k \in {"log", "logErr", "minifyFile", "minifyBundle"}
    /\ out[2] = Line("blank")
    /\ (/\ ContainsUglify(ev.err.message)
        /\ ev.err.stack # <<>>
        /\ \A i \in 1..Len(ev.err.stack) : Decomps(ev.err.stack[i]) = {})
         => out[1] = Item("minifyBundle", ev.err.message, <<>>)

C11_Witness ==
  /\ ev.kind = "print"
  /\ ev.err.message = <<UN>> /\ ev.err.stack = <<(<<"t">>)>>
  /\ out = <<Item("minifyBundle", <<UN>>, <<>>), Line("blank")>>
  /\ ~thrown

\* C12: with 'from UglifyJs' in the message and a stack of the shape
\* <text>[<path>:<line>,<column>][<anything>], printBuildError prints exactly
\* that path:line:column, leaving ':column' out iff the column is '0'; the
\* structured branch is entered only with a non-empty stack and such a
\* message, otherwise the raw message (or the error itself) is printed.
C12_ExtractsLocation ==
  ev.kind = "print" =>
    LET structured == ev.err.stack # <<>> /\ ContainsUglify(ev.err.message)
    IN /\ \A t \in ShapeTexts, p \in ShapePaths, l \in ShapeLines,
            c \in ShapeColumns, a \in ShapeAnythings :
            (structured /\ ev.err.stack = <<Shape(t, p, l, c, a), <<"t">>>>)
              => out[1] = Item("minifyFile", <<>>,
                               IF c = <<"0">> THEN <<p, l>> ELSE <<p, l, c>>)
       /\ (out[1].k \in {"minifyFile", "minifyBundle"}) = structured
       /\ ~structured =>
            out[1] = IF ev.err.message # <<>>
                     THEN Item("log", ev.err.message, <<>>)
                     ELSE Line("logErr")

\* C13: at most one spinner instance exists per process: it is built on the
\* first getServeSpinner() call and every later call, from any callback,
\* returns it.
C13_OneSpinner ==
  /\ made <= 1
  /\ spinner.exists = (made = 1)
  /\ sessions # <<>> => made = 1

C13_Witness ==
  /\ Len(sessions) = 2 /\ sessions[1].mode = "watch" /\ sessions[2].mode = "prod"
  /\ nDone = 2 /\ ev.kind = "run" /\ Persisted # {}
  /\ made = 1

\* C14: in one-shot mode, whatever the run callback is handed (engine error,
\* Success, Failure, WarningsOnly), the reporter has been stopped and
\* persisted when the callback returns.
C14_RunReported ==
  ev.kind = "run" => (~spinner.isSpinning /\ Persisted # {})

\* C15: the entry runs exactly the path config.isWatch selects: the watch
\* path registers the hooks, creates the server and calls listen, never
\* compiler.run; the one-shot path calls compiler.run once, registers no
\* hook, has no server, prints no banner, leaves isFirst alone and opens no
\* browser.
C15_DispatchOnePath ==
  /\ \A s \in 1..Len(sessions) :
       LET x == sessions[s]
       IN /\ x.isWatch =>
               /\ x.mode = "watch"
               /\ x.hooks = {"taroInvalid", "taroDone", "taroDoneFirst"}
               /\ x.listen \in {"pending", "ok", "err"}
               /\ x.runs = 0
          /\ ~x.isWatch =>
               /\ x.mode = "prod"
               /\ x.runs = 1
               /\ x.hooks = {}
               /\ x.listen = "none"
               /\ x.opened = 0
  /\ (ev.kind # "none" /\ ~sessions[ev.s].isWatch) =>
       /\ ev.kind \in {"entry", "run"}
       /\ Banner = {}
       /\ isFirst = ev.first

C15_Witness ==
  /\ Len(sessions) = 2
  /\ sessions[1].isWatch /\ sessions[1].listen = "ok" /\ sessions[1].opened = 1
  /\ ~sessions[2].isWatch /\ ev.kind = "run" /\ ev.s = 2
  /\ isFirst /\ Banner = {}

\* C16: in both modes the reporter is started with label 'Compiling...'
\* before a compile result can be handled: no outcome line is persisted
\* while the reporter was never started.
C16_StartedBeforeResult ==
  /\ Persisted # {} => spinner.started
  /\ sessions # <<>> => (spinner.started /\ spinner.text = "Compiling...")
  /\ (ev.kind = "entry" /\ made = 1) => spinner.isSpinning

C16_Witness ==
  /\ Len(sessions) = 1 /\ sessions[1].mode = "prod"
  /\ ev.kind = "run" /\ ev.spinning /\ Persisted # {}
  /\ spinner.started

\* C17: per buildDev call the browser is opened at most once, and only when
\* the listen callback reports no error; on a listen error the error is
\* logged, no browser is opened and the hooks stay registered and untouched.
C17_BrowserOnce ==
  /\ \A s \in 1..Len(sessions) :
       /\ sessions[s].opened <= 1
       /\ (sessions[s].opened = 1) = (sessions[s].listen = "ok")
  /\ (ev.kind = "listen" /\ sessions[ev.s].listen = "err") =>
       /\ out = <<Line("listenErr")>>
       /\ sessions[ev.s].hooks = {"taroInvalid", "taroDone", "taroDoneFirst"}
       /\ spinner.isSpinning = ev.spinning
       /\ isFirst = ev.first
  /\ (ev.kind = "listen" /\ sessions[ev.s].listen = "ok") => out = <<>>

C17_Witness ==
  /\ ev.kind = "done" /\ sessions[ev.s].listen = "err"
  /\ sessions[ev.s].opened = 0
  /\ out[1].k = "green" /\ Banner # {}

\* C18: on the first compile-complete event of watch mode the outcome block
\* (persisted line and diagnostic text, from taroDone) is written before
\* the banner (from taroDoneFirst), never after or inside it.
C18_OutcomeBeforeBanner ==
  (ev.kind = "done" /\ ev.first) =>
    /\ Banner # {} /\ Persisted # {}
    /\ \A i \in Persisted \cup Texts :
         \A j \in Banner \cup Kinds({"blank"}) : i < j

C18_Witness ==
  /\ ev.kind = "done" /\ ev.first
  /\ ev.errors # <<>> /\ ev.warnings # <<>>
  /\ out[1].k = "red" /\ out[3].k = "yellow"
  /\ Len(out) = 8 /\ out[5].k = "blank" /\ out[8].k = "watching"

====
